---- MODULE Spec2Model ----
(***************************************************************************)
(* ChainGuardian backend: the transaction intake pipeline                  *)
(* (app/main.py, process_transaction) and the statistics projection        *)
(* (app/database.py, Database.get_statistics) over the two MongoDB         *)
(* collections `transactions` and `alerts`.                                *)
(*                                                                         *)
(* The store is a MongoDB server outside the process: it is shared by      *)
(* every worker that serves the API, so the atomic unit of the model is    *)
(* one store operation (insert_one, count_documents), and the steps of     *)
(* different handler invocations interleave between store operations.      *)
(* A handler that is killed at some point is a behaviour that takes no     *)
(* further step of that invocation: every reachable state is also a state  *)
(* the store can be left in by a crash.                                    *)
(*                                                                         *)
(* Numbers: risk scores are in hundredths (0.8 is 80), accuracy is in      *)
(* hundredths of a percent (95.0 is 9500), datetime.now() is the clock     *)
(* `now`.                                                                  *)
(***************************************************************************)
EXTENDS Integers, FiniteSets, Sequences, TLC

\* ------------------------------------------------------------------ bounds
NumCalls == 2       \* invocations of process_transaction in one run
MaxTime == 2        \* the largest value of the clock

\* ------------------------------------------------------- program constants
FallbackRiskScore == 10       \* 'risk_score': 0.1
HighSeverityThreshold == 80   \* prediction['risk_score'] >= 0.8
DefaultGasPrice == 50         \* gas_price: Optional[float] = 50.0
DefaultGasUsed == 21000       \* gas_used: Optional[int] = 21000
HttpOk == 200
HttpServerError == 500

\* ------------------------------------------------------------ input domains
Calls == 1 .. NumCalls                \* the invocations, each serving one request
TxHashes == {"0xabc", "0xdef"}
Addresses == {"0x1"}
Amounts == {10}
Absent == 0                           \* timestamp None (or ""): falsy
SuppliedTimestamps == {1}
OracleVersions == {"v1"}
OracleExplanations == {"expl"}
StoreErrors == {"store unavailable"}  \* str(e) of a pymongo failure
OracleErrors == {"predict failed"}    \* str(e) of a FraudDetector failure

None == [none |-> TRUE]
NoHash == <<>>                        \* signature_hash = None

VARIABLES
  ML_AVAILABLE,      \* main.py: module flag, fixed after start-up
  transactions,      \* the store's transactions collection (documents)
  alerts,            \* the store's alerts collection (documents)
  now,               \* datetime.now()
  pc,                \* per invocation: position in process_transaction
  tx,                \* per invocation: the request body
  tx_data,           \* per invocation: the normalised context
  prediction,        \* per invocation: the assessment in use
  tx_record,         \* per invocation: the transaction document built
  alert_record,      \* per invocation: the alert document built
  signature_hash,    \* per invocation: signature_hash
  alert_registered,  \* per invocation: alert_registered
  response,          \* per invocation: what the caller receives
  spc,               \* get_statistics: position
  total_txs,         \* get_statistics: local
  fraud_detected,    \* get_statistics: local
  active_alerts,     \* get_statistics: local
  stats              \* get_statistics: the value returned

intakeVars == <<pc, tx, tx_data, prediction, tx_record, alert_record,
                signature_hash, alert_registered, response>>
storeVars == <<transactions, alerts>>
statVars == <<spc, total_txs, fraud_detected, active_alerts, stats>>
vars == <<ML_AVAILABLE, now, storeVars, intakeVars, statVars>>

\* ----------------------------------------------------------------- requests
\* class Transaction(BaseModel)
Transaction ==
  [txHash : TxHashes, from_address : Addresses, to_address : Addresses,
   amount : Amounts, timestamp : {Absent} \cup SuppliedTimestamps,
   gas_price : {DefaultGasPrice}, gas_used : {DefaultGasUsed}]

\* what fraud_detector.predict can return
OracleAssessments ==
  {<<20, "normal">>, <<79, "suspicious">>, <<80, "suspicious">>}
OraclePredictions ==
  {[risk_score |-> a[1], label |-> a[2], explanation |-> e,
    model_version |-> v, model_hash |-> "h1"] :
     a \in OracleAssessments, e \in OracleExplanations, v \in OracleVersions}

\* the fallback prediction of the else branch
FallbackPrediction ==
  [risk_score |-> FallbackRiskScore, label |-> "normal",
   explanation |-> "empty", model_version |-> "N/A", model_hash |-> "N/A"]


\* ------------------------------------------------------------ pure helpers
\* the variant that always takes the clock
TimestampIgnoringRequest(supplied, clock) == clock

\* main.py:100   tx.timestamp or datetime.now().isoformat()
Timestamp(supplied, clock) == IF supplied # Absent THEN supplied ELSE clock

\* main.py:96-103
TxData(t, clock) ==
  [from |-> t.from_address, to |-> t.to_address, amount |-> t.amount,
   timestamp |-> Timestamp(t.timestamp, clock),
   gas_price |-> t.gas_price, gas_used |-> t.gas_used]

\* database.py:42, 52   insert_one gives a document without _id a fresh
\* ObjectId: one per invocation and collection
NoId == <<>>
ObjectId(c, collection) == <<c, collection>>

\* main.py:119-129
TxRecord(t, d, p, clock) ==
  [_id |-> NoId, txHash |-> t.txHash, from |-> t.from_address,
   to |-> t.to_address, amount |-> t.amount, timestamp |-> d.timestamp,
   riskScore |-> p.risk_score, label |-> p.label,
   modelVersion |-> p.model_version, processed_at |-> clock]

\* main.py:136-143
FraudSignature(t, d, p) ==
  [txHash |-> t.txHash, flaggedAddress |-> t.from_address,
   riskScore |-> p.risk_score, timestamp |-> d.timestamp,
   modelVersion |-> p.model_version, explanation |-> p.explanation]

\* main.py:146   json.dumps(fraud_signature, sort_keys=True): the values in
\* the order of the sorted keys
CanonicalJson(sig) ==
  << <<"explanation", sig.explanation>>,
     <<"flaggedAddress", sig.flaggedAddress>>,
     <<"modelVersion", sig.modelVersion>>,
     <<"riskScore", sig.riskScore>>,
     <<"timestamp", sig.timestamp>>,
     <<"txHash", sig.txHash>> >>

\* main.py:145-147   hashlib.sha256(...).hexdigest(): a collision-free digest
\* is a tag on the bytes it digests
Sha256Hex(bytes) == <<"sha256">> \o bytes

SignatureHash(sig) == Sha256Hex(CanonicalJson(sig))

\* the variant with > for >=
SeverityStrictlyAbove(risk_score) ==
  IF risk_score > HighSeverityThreshold THEN 2 ELSE 1

\* main.py:149
Severity(risk_score) == IF risk_score >= HighSeverityThreshold THEN 2 ELSE 1

\* main.py:152-161
AlertRecord(t, p, h, clock) ==
  [_id |-> NoId, sigHash |-> h, txHash |-> t.txHash,
   flaggedAddress |-> t.from_address, riskScore |-> p.risk_score,
   severity |-> Severity(p.risk_score), explanation |-> p.explanation,
   timestamp |-> clock, status |-> "active"]

\* the variant with 'signatureHash' left at its initial None
SuccessResponseDroppingHash(t, p, registered, h) ==
  [status |-> HttpOk, success |-> TRUE, txHash |-> t.txHash,
   riskScore |-> p.risk_score, label |-> p.label,
   explanation |-> p.explanation, alertRegistered |-> registered,
   signatureHash |-> NoHash]

\* main.py:169-177
SuccessResponse(t, p, registered, h) ==
  [status |-> HttpOk, success |-> TRUE, txHash |-> t.txHash,
   riskScore |-> p.risk_score, label |-> p.label,
   explanation |-> p.explanation, alertRegistered |-> registered,
   signatureHash |-> h]

\* main.py:179-181   HTTPException(status_code=500, detail=str(e))
ErrorResponse(e) == [status |-> HttpServerError, detail |-> e]

\* database.py:109   round(accuracy, 2) of (n / d) * 100, in hundredths
\* (no tie at the third decimal arises for d < 64)
RoundedPercent(n, d) ==
  IF n >= 0 THEN (20000 * n + d) \div (2 * d)
            ELSE -((20000 * (-n) + d) \div (2 * d))

\* database.py:101-104
Accuracy(total, fraud) ==
  IF total > 0 THEN RoundedPercent(total - fraud, total) ELSE 0

\* database.py:106-111
Statistics(total, fraud, active) ==
  [totalTx |-> total, fraudDetected |-> fraud,
   accuracy |-> Accuracy(total, fraud), activeAlerts |-> active]

\* database.py:118-123
ZeroStatistics ==
  [totalTx |-> 0, fraudDetected |-> 0, accuracy |-> 0, activeAlerts |-> 0]

\* ---------------------------------------------------------------- start-up
\* main.py:14-20, 44, 53-58: the ML engine loads or does not; the store is
\* connected (Database() raises otherwise and the process does not start)
Init ==
  /\ ML_AVAILABLE \in BOOLEAN
  /\ transactions = {}
  /\ alerts = {}
  /\ now = 1
  /\ pc = [c \in Calls |-> "idle"]
  /\ tx = [c \in Calls |-> None]
  /\ tx_data = [c \in Calls |-> None]
  /\ prediction = [c \in Calls |-> None]
  /\ tx_record = [c \in Calls |-> None]
  /\ alert_record = [c \in Calls |-> None]
  /\ signature_hash = [c \in Calls |-> NoHash]
  /\ alert_registered = [c \in Calls |-> FALSE]
  /\ response = [c \in Calls |-> None]
  /\ spc = "idle"
  /\ total_txs = 0
  /\ fraud_detected = 0
  /\ active_alerts = 0
  /\ stats = None

\* the clock advances
Tick ==
  /\ now < MaxTime
  /\ now' = now + 1
  /\ UNCHANGED <<ML_AVAILABLE, storeVars, intakeVars, statVars>>

\* ------------------------------------------------------ process_transaction
\* main.py:179-181: the except clause; the handler's frame, and its locals
\* with it, is gone once the HTTPException is raised
Abort(c, e) ==
  /\ response' = [response EXCEPT ![c] = ErrorResponse(e)]
  /\ pc' = [pc EXCEPT ![c] = "failed"]
  /\ tx' = [tx EXCEPT ![c] = None]
  /\ tx_data' = [tx_data EXCEPT ![c] = None]
  /\ prediction' = [prediction EXCEPT ![c] = None]
  /\ tx_record' = [tx_record EXCEPT ![c] = None]
  /\ alert_record' = [alert_record EXCEPT ![c] = None]
  /\ signature_hash' = [signature_hash EXCEPT ![c] = NoHash]
  /\ alert_registered' = [alert_registered EXCEPT ![c] = FALSE]

\* main.py:91-107, 119-129: the request arrives, is normalised and the oracle
\* answers; the transaction document is built (the invocations are numbered in
\* the order the requests arrive)
ReceiveOracle(c) ==
  /\ pc[c] = "idle"
  /\ \A b \in Calls : b < c => pc[b] # "idle"
  /\ ML_AVAILABLE
  /\ \E t \in Transaction, p \in OraclePredictions :
       /\ tx' = [tx EXCEPT ![c] = t]
       /\ tx_data' = [tx_data EXCEPT ![c] = TxData(t, now)]
       /\ prediction' = [prediction EXCEPT ![c] = p]
       /\ tx_record' = [tx_record EXCEPT
                          ![c] = TxRecord(t, TxData(t, now), p, now)]
  /\ pc' = [pc EXCEPT ![c] = "save_tx"]
  /\ UNCHANGED <<ML_AVAILABLE, now, storeVars, statVars, alert_record,
                 signature_hash, alert_registered, response>>

\* main.py:91-107, 179-181: fraud_detector.predict raises, the handler
\* answers 500
ReceiveOracleRaises(c) ==
  /\ pc[c] = "idle"
  /\ \A b \in Calls : b < c => pc[b] # "idle"
  /\ ML_AVAILABLE
  /\ \E e \in OracleErrors : Abort(c, e)
  /\ UNCHANGED <<ML_AVAILABLE, now, storeVars, statVars>>

\* main.py:91-106, 108-116, 119-129: the engine did not load, the fallback
\* prediction is used
ReceiveFallback(c) ==
  /\ pc[c] = "idle"
  /\ \A b \in Calls : b < c => pc[b] # "idle"
  /\ ~ML_AVAILABLE
  /\ \E t \in Transaction :
       /\ tx' = [tx EXCEPT ![c] = t]
       /\ tx_data' = [tx_data EXCEPT ![c] = TxData(t, now)]
       /\ tx_record' = [tx_record EXCEPT
            ![c] = TxRecord(t, TxData(t, now), FallbackPrediction, now)]
  /\ prediction' = [prediction EXCEPT ![c] = FallbackPrediction]
  /\ pc' = [pc EXCEPT ![c] = "save_tx"]
  /\ UNCHANGED <<ML_AVAILABLE, now, storeVars, statVars, alert_record,
                 signature_hash, alert_registered, response>>

\* main.py:130, database.py:39-44: insert_one stores the document
SaveTransactionOk(c) ==
  /\ pc[c] = "save_tx"
  /\ LET doc == [tx_record[c] EXCEPT !._id = ObjectId(c, "transactions")]
     IN  /\ tx_record' = [tx_record EXCEPT ![c] = doc]
         /\ transactions' = transactions \cup {doc}
  /\ pc' = [pc EXCEPT ![c] = "check_label"]
  /\ UNCHANGED <<ML_AVAILABLE, now, alerts, statVars, tx, tx_data, prediction,
                 alert_record, signature_hash, alert_registered, response>>

\* the variant in which the exception of insert_one is dropped and the handler
\* goes on to the test of the label
SaveTransactionRaisesSwallowed(c) ==
  /\ pc[c] = "save_tx"
  /\ tx_record' = [tx_record EXCEPT ![c]._id = ObjectId(c, "transactions")]
  /\ pc' = [pc EXCEPT ![c] = "check_label"]
  /\ UNCHANGED <<ML_AVAILABLE, now, transactions, alerts, statVars, tx,
                 tx_data, prediction, alert_record, signature_hash,
                 alert_registered, response>>

\* the variant in which the exception is dropped and success is answered (as
\* the get_* methods of database.py drop theirs)
SaveTransactionRaisesReportsSuccess(c) ==
  /\ pc[c] = "save_tx"
  /\ response' = [response EXCEPT
                    ![c] = SuccessResponse(tx[c], prediction[c], FALSE, NoHash)]
  /\ pc' = [pc EXCEPT ![c] = "done"]
  /\ UNCHANGED <<ML_AVAILABLE, now, storeVars, statVars, tx, tx_data,
                 prediction, tx_record, alert_record, signature_hash,
                 alert_registered>>

\* main.py:130, 179-181, database.py:45-47: insert_one raises and stores
\* nothing, the handler answers 500
SaveTransactionRaises(c) ==
  /\ pc[c] = "save_tx"
  /\ \E e \in StoreErrors : Abort(c, e)
  /\ UNCHANGED <<ML_AVAILABLE, now, storeVars, statVars>>

\* main.py:132-135, 166-177: any label but 'suspicious'
NoAlert(c) ==
  /\ pc[c] = "check_label"
  /\ prediction[c].label # "suspicious"
  /\ response' = [response EXCEPT
                    ![c] = SuccessResponse(tx[c], prediction[c], FALSE, NoHash)]
  /\ pc' = [pc EXCEPT ![c] = "done"]
  /\ UNCHANGED <<ML_AVAILABLE, now, storeVars, statVars, tx, tx_data,
                 prediction, tx_record, alert_record, signature_hash,
                 alert_registered>>

\* the variant without the test of the label at main.py:135
SaveAlertOkAnyLabel(c) ==
  /\ pc[c] = "check_label"
  /\ LET h == SignatureHash(FraudSignature(tx[c], tx_data[c], prediction[c]))
         doc == [AlertRecord(tx[c], prediction[c], h, now)
                   EXCEPT !._id = ObjectId(c, "alerts")]
     IN  /\ signature_hash' = [signature_hash EXCEPT ![c] = h]
         /\ alert_record' = [alert_record EXCEPT ![c] = doc]
         /\ alerts' = alerts \cup {doc}
         /\ alert_registered' = [alert_registered EXCEPT ![c] = TRUE]
         /\ response' = [response EXCEPT
                           ![c] = SuccessResponse(tx[c], prediction[c], TRUE, h)]
  /\ pc' = [pc EXCEPT ![c] = "done"]
  /\ UNCHANGED <<ML_AVAILABLE, now, transactions, statVars, tx, tx_data,
                 prediction, tx_record>>

\* main.py:135-163, 169-177, database.py:49-54: the alert is stored
SaveAlertOk(c) ==
  /\ pc[c] = "check_label"
  /\ prediction[c].label = "suspicious"
  /\ LET h == SignatureHash(FraudSignature(tx[c], tx_data[c], prediction[c]))
         doc == [AlertRecord(tx[c], prediction[c], h, now)
                   EXCEPT !._id = ObjectId(c, "alerts")]
     IN  /\ signature_hash' = [signature_hash EXCEPT ![c] = h]
         /\ alert_record' = [alert_record EXCEPT ![c] = doc]
         /\ alerts' = alerts \cup {doc}
         /\ alert_registered' = [alert_registered EXCEPT ![c] = TRUE]
         /\ response' = [response EXCEPT
                           ![c] = SuccessResponse(tx[c], prediction[c], TRUE, h)]
  /\ pc' = [pc EXCEPT ![c] = "done"]
  /\ UNCHANGED <<ML_AVAILABLE, now, transactions, statVars, tx, tx_data,
                 prediction, tx_record>>

\* main.py:135-162, 179-181, database.py:55-57: the alert insert raises
SaveAlertRaises(c) ==
  /\ pc[c] = "check_label"
  /\ prediction[c].label = "suspicious"
  /\ \E e \in StoreErrors : Abort(c, e)
  /\ UNCHANGED <<ML_AVAILABLE, now, storeVars, statVars>>

\* ----------------------------------------------------------- get_statistics
\* database.py:97
CountTotal ==
  /\ spc = "idle"
  /\ total_txs' = Cardinality(transactions)
  /\ spc' = "count_fraud"
  /\ stats' = None
  /\ UNCHANGED <<ML_AVAILABLE, now, storeVars, intakeVars, fraud_detected,
                 active_alerts>>

\* database.py:98
CountFraud ==
  /\ spc = "count_fraud"
  /\ fraud_detected' =
       Cardinality({d \in transactions : d.label = "suspicious"})
  /\ spc' = "count_active"
  /\ UNCHANGED <<ML_AVAILABLE, now, storeVars, intakeVars, total_txs,
                 active_alerts, stats>>

\* database.py:99-114
CountActive ==
  /\ spc = "count_active"
  /\ LET n == Cardinality({d \in alerts : d.status = "active"})
     IN  /\ active_alerts' = n
         /\ stats' = Statistics(total_txs, fraud_detected, n)
  /\ spc' = "done"
  /\ UNCHANGED <<ML_AVAILABLE, now, storeVars, intakeVars, total_txs,
                 fraud_detected>>

\* database.py:116-123: a count raises
CountRaises ==
  /\ spc \in {"idle", "count_fraud", "count_active"}
  /\ stats' = ZeroStatistics
  /\ spc' = "done"
  /\ UNCHANGED <<ML_AVAILABLE, now, storeVars, intakeVars, total_txs,
                 fraud_detected, active_alerts>>

\* main.py:203-207: the statistics are returned
StatsReturn ==
  /\ spc = "done"
  /\ spc' = "idle"
  /\ total_txs' = 0
  /\ fraud_detected' = 0
  /\ active_alerts' = 0
  /\ stats' = None
  /\ UNCHANGED <<ML_AVAILABLE, now, storeVars, intakeVars>>

\* ------------------------------------------------------------ specifications
Intake(c) ==
  \/ ReceiveOracle(c)
  \/ ReceiveOracleRaises(c)
  \/ ReceiveFallback(c)
  \/ SaveTransactionOk(c)
  \/ SaveTransactionRaises(c)
  \/ NoAlert(c)
  \/ SaveAlertOk(c)
  \/ SaveAlertRaises(c)

Next ==
  \/ Tick
  \/ \E c \in Calls : Intake(c)

Spec == Init /\ [][Next]_vars


Stats ==
  \/ CountTotal
  \/ CountFraud
  \/ CountActive
  \/ CountRaises
  \/ StatsReturn

NextStats ==
  \/ Tick
  \/ \E c \in Calls : Intake(c)
  \/ Stats

\* the intake pipeline with get_statistics running beside it
SpecStats == Init /\ [][NextStats]_vars

\* ------------------------------------------------------------------ queries
\* the documents an invocation has put into the store
TxStored(c) == \E d \in transactions : d._id = ObjectId(c, "transactions")
AlertStored(c) == \E d \in alerts : d._id = ObjectId(c, "alerts")
TxDocs(c) == {d \in transactions : d._id[1] = c}
AlertDocs(c) == {d \in alerts : d._id[1] = c}
Ended(c) == pc[c] \in {"done", "failed"}
Responded(c) == pc[c] = "done"

\* ------------------------------------------------------------------- claims

\* C1: the transaction write precedes the alert write of the same call, so in
\* every reachable state of the store (a crash at any point and interleaved
\* calls included) every AlertRecord has a TransactionRecord with the same
\* txHash, written by the same call.
C1_AlertHasTransaction ==
  \A a \in alerts :
    \E t \in transactions : t.txHash = a.txHash /\ t._id[1] = a._id[1]

\* an alert is stored while another call has left a transaction without alert
C1_Witness ==
  \E c1, c2 \in Calls :
    /\ AlertStored(c1)
    /\ pc[c2] = "failed" /\ TxStored(c2) /\ ~AlertStored(c2)
    /\ \E t \in TxDocs(c2) : t.label = "suspicious"

\* C2 as stated: every call whose oracle label is "suspicious" has, once it
\* has ended, persisted its TransactionRecord and its AlertRecord, and answered
\* alertRegistered = true with the stored sigHash as signatureHash.
C2_Original ==
  [][\A c \in Calls :
       (/\ pc[c] \in {"save_tx", "check_label"}
        /\ prediction[c].label = "suspicious"
        /\ pc'[c] \in {"done", "failed"})
       => /\ TxStored(c)'
          /\ AlertStored(c)'
          /\ response'[c].status = HttpOk
          /\ response'[c].alertRegistered]_vars

\* C2 amended: every call whose oracle label is "suspicious" and that returns
\* its response (neither store write failed) has persisted one
\* TransactionRecord and one AlertRecord, and the signatureHash of the response
\* is the sigHash of that AlertRecord, with alertRegistered = true.
C2_SuspiciousPersistsBoth ==
  \A c \in Calls :
    (Responded(c) /\ prediction[c].label = "suspicious")
    => /\ Cardinality(TxDocs(c)) = 1
       /\ Cardinality(AlertDocs(c)) = 1
       /\ \A t \in TxDocs(c) : t.label = "suspicious" /\ t.txHash = tx[c].txHash
       /\ response[c].status = HttpOk
       /\ response[c].alertRegistered
       /\ response[c].signatureHash # NoHash
       /\ \A a \in AlertDocs(c) :
            /\ a.sigHash = response[c].signatureHash
            /\ a.txHash = tx[c].txHash

C2_Witness ==
  \E c \in Calls :
    /\ Responded(c)
    /\ prediction[c].label = "suspicious"
    /\ AlertStored(c)
    /\ response[c].alertRegistered

\* C3 as stated: every call whose oracle label is not "suspicious" adds exactly
\* one TransactionRecord, leaves the alerts alone and answers
\* alertRegistered = false, signatureHash = null.
C3_Original ==
  [][\A c \in Calls :
       (/\ pc[c] \in {"save_tx", "check_label"}
        /\ prediction[c].label # "suspicious"
        /\ pc'[c] \in {"done", "failed"})
       => /\ Cardinality(TxDocs(c))' = 1
          /\ ~AlertStored(c)'
          /\ response'[c].status = HttpOk
          /\ ~response'[c].alertRegistered
          /\ response'[c].signatureHash = NoHash]_vars

\* C3 amended: a call whose oracle label is not "suspicious" never derives a
\* signature and never writes an AlertRecord; when its transaction write
\* succeeds and it returns its response, exactly one TransactionRecord has been
\* added and the response has alertRegistered = false, signatureHash = null.
C3_NoAlertForOtherLabels ==
  \A c \in Calls :
    (pc[c] \in {"save_tx", "check_label", "done"}
       /\ prediction[c].label # "suspicious")
    => /\ signature_hash[c] = NoHash
       /\ alert_record[c] = None
       /\ ~alert_registered[c]
       /\ AlertDocs(c) = {}
       /\ Responded(c) =>
            /\ Cardinality(TxDocs(c)) = 1
            /\ response[c].status = HttpOk
            /\ ~response[c].alertRegistered
            /\ response[c].signatureHash = NoHash

\* a call with another label has responded while the alerts hold a record of
\* another call
C3_Witness ==
  \E c \in Calls :
    /\ Responded(c)
    /\ prediction[c].label = "normal"
    /\ TxStored(c)
    /\ alerts # {}

\* C4: a failure of the alert write after the transaction write succeeded is
\* reported to the caller differently from a failure of the transaction write.
C4_PartialFailureDistinct ==
  \A c1, c2 \in Calls :
    (/\ pc[c1] = "failed" /\ TxStored(c1)
     /\ pc[c2] = "failed" /\ ~TxStored(c2)
     /\ response[c2].detail \in StoreErrors)
    => response[c1] # response[c2]

\* C5: a call that leaves the transaction write without its TransactionRecord
\* stored ends at once with an error answer, has changed neither collection,
\* has derived no signature, and does nothing afterwards.
C5_TxWriteFailureAborts ==
  [][\A c \in Calls :
       /\ (pc[c] = "save_tx" /\ pc'[c] # "save_tx" /\ ~TxStored(c)')
          => /\ pc'[c] = "failed"
             /\ response'[c].status = HttpServerError
             /\ response'[c].detail \in StoreErrors
             /\ transactions' = transactions
             /\ alerts' = alerts
             /\ signature_hash'[c] = NoHash
             /\ alert_record'[c] = None
       /\ pc[c] = "failed"
          => /\ pc'[c] = "failed"
             /\ response'[c] = response[c]
             /\ TxDocs(c)' = TxDocs(c)
             /\ AlertDocs(c)' = AlertDocs(c)]_vars

\* the transaction write of a call has failed while another call's records
\* are in the store
C5_Witness ==
  \E c \in Calls :
    /\ pc[c] = "failed"
    /\ response[c].detail \in StoreErrors
    /\ TxDocs(c) = {} /\ AlertDocs(c) = {}
    /\ transactions # {}
    /\ alerts # {}

\* C6: an unavailable oracle never fails the request: no call ends with the
\* oracle's error, and a call made while the engine is not loaded uses the
\* fallback assessment.
C6_OracleFailureFallsBack ==
  \A c \in Calls :
    /\ pc[c] = "failed" => response[c].detail \notin OracleErrors
    /\ (~ML_AVAILABLE /\ pc[c] \in {"save_tx", "check_label", "done"})
       => prediction[c] = FallbackPrediction

\* C7: the alerts collection holds at most one AlertRecord per sigHash.
C7_OneAlertPerSigHash ==
  \A a1, a2 \in alerts : a1.sigHash = a2.sigHash => a1 = a2

\* C8 as stated: two calls with the same request fields and the same oracle
\* assessment return the same signatureHash, whenever each of them runs.
C8_Original ==
  \A c1, c2 \in Calls :
    (/\ Responded(c1) /\ Responded(c2)
     /\ tx[c1] = tx[c2]
     /\ prediction[c1] = prediction[c2])
    => response[c1].signatureHash = response[c2].signatureHash

\* C8 amended: two calls with the same request fields, a timestamp among them,
\* and the same oracle assessment return the same signatureHash, whenever each
\* of them runs and whatever the store holds.
C8_SameHashForSameTimestampedRequest ==
  \A c1, c2 \in Calls :
    (/\ Responded(c1) /\ Responded(c2)
     /\ tx[c1] = tx[c2]
     /\ tx[c1].timestamp # Absent
     /\ prediction[c1] = prediction[c2])
    => response[c1].signatureHash = response[c2].signatureHash

\* two calls with the same timestamped request, flagged alike, that ran at
\* different times
C8_Witness ==
  \E c1, c2 \in Calls :
    /\ c1 # c2
    /\ Responded(c1) /\ Responded(c2)
    /\ tx[c1] = tx[c2]
    /\ tx[c1].timestamp # Absent
    /\ prediction[c1] = prediction[c2]
    /\ prediction[c1].label = "suspicious"
    /\ tx_record[c1].processed_at # tx_record[c2].processed_at
    /\ response[c1].signatureHash # NoHash

\* C9: the severity of every stored AlertRecord is 2 exactly when its
\* riskScore is at least 0.8 and 1 otherwise; 0.79 gives 1 and 0.8 gives 2.
C9_SeverityTiers ==
  /\ \A a \in alerts :
       /\ a.severity \in {1, 2}
       /\ a.severity = 2 <=> a.riskScore >= 80
  /\ Severity(0) = 1 /\ Severity(79) = 1
  /\ Severity(80) = 2 /\ Severity(100) = 2

\* an alert on each side of the boundary is stored
C9_Witness ==
  /\ \E a \in alerts : a.riskScore = 79 /\ a.severity = 1
  /\ \E a \in alerts : a.riskScore = 80 /\ a.severity = 2

\* C10: every Statistics value get_statistics returns is consistent:
\* fraudDetected <= totalTx, accuracy within [0, 100], accuracy 0 for no
\* transactions.
C10_ConsistentStatistics ==
  (spc = "done")
  => /\ stats.fraudDetected <= stats.totalTx
     /\ stats.accuracy >= 0 /\ stats.accuracy <= 10000
     /\ stats.totalTx = 0 => stats.accuracy = 0

====
